---- MODULE Spec2Model ----
(***************************************************************************)
(* @feathersjs/hooks: middleware registered on an object or a function,    *)
(* collected at call time, composed around the original function and run   *)
(* in onion order over one shared hook context.                            *)
(*                                                                         *)
(* Middleware are user code: what a middleware does in its sections (set   *)
(* context.result, suspend, call next(), return, throw, catch) is input,   *)
(* chosen step by step.  Positions 1..n of a chain are the middleware,     *)
(* position n+1 is the link that runs the original function.               *)
(***************************************************************************)
EXTENDS Integers, Sequences, FiniteSets, TLC

VARIABLES HOOKS, made, heap, calls, lim, obj, applied

vars == <<HOOKS, made, heap, calls, lim, obj, applied>>

(***************************************************************************)
(* Bounds                                                                  *)
(***************************************************************************)
MaxChain == 3       \* middleware functions ever registered
MaxReg == 2         \* longest array one registration passes
MaxChainConc == 1   \* MaxChain when two calls are in flight
MaxChainParams == 2 \* MaxChain when the parameters are named
MaxChainCollect == 2 \* MaxChain when there are several targets
MaxKeys == 2        \* keys of a hook map
MaxChainCtx == 2    \* MaxChain when the caller passes a context
MaxChainLate == 2   \* MaxChain when registrations happen between two calls

(***************************************************************************)
(* Values                                                                  *)
(***************************************************************************)
Undef == [k |-> "undefined", n |-> 0]
\* what the original function returns
Returned == [k |-> "returned", n |-> 0]
\* what the middleware at position i assigns to context.result
Assigned(i) == [k |-> "assigned", n |-> i]
NoError == [k |-> "none", n |-> 0]
\* the error thrown at position i (n+1: by the original function)
Failure(i) == [k |-> "Error", n |-> i]
\* the error of the next() that the middleware at position i called again
ProtocolViolation(i) == [k |-> "next() called multiple times", n |-> i]

\* the error of calling a value that is not a function
NotCallable == [k |-> "TypeError: is not a function", n |-> 0]
\* the error of a write that strict-mode code makes to a read-only property
TypeError(i) == [k |-> "TypeError", n |-> i]

\* the values a caller passes as arguments
Arg(i) == [k |-> "arg", n |-> i]
\* the defined values that are falsy: null, 0, false and ''
Null == [k |-> "null", n |-> 0]
Zero == [k |-> "number", n |-> 0]
False == [k |-> "boolean", n |-> 0]
EmptyString == [k |-> "string", n |-> 0]
\* a value of a defaults object
Default == [k |-> "default", n |-> 0]
FieldValues == {Undef, Null, Zero, False, EmptyString, Arg(1)}
DefaultKeys == {"a", "b", "result"}
\* the defaults objects: some keys, each with a default or with null
Defaults ==
    UNION {[keys -> {Default, Null}] : keys \in (SUBSET DefaultKeys) \ {{}}}
\* a value the caller seeds a context with
Seeded == [k |-> "seeded", n |-> 0]
\* the data of the contexts a caller makes
ContextData == {[message |-> Seeded], [message |-> Seeded, result |-> Seeded]}
\* the value the middleware at position i assigns to a property
Changed(i) == [k |-> "changed", n |-> i]

\* a HookContext instance passed as an argument
ContextValue(ref) == [k |-> "HookContext", n |-> ref]

\* the updater that withParams(...params) returns
WithParams(params) == [type |-> "function", name |-> "withParams", params |-> params]

\* the object whose methods get hooks: two methods and a property that is
\* not a function
Object ==
    [sayHi    |-> [type |-> "function", name |-> "sayHi"],
     sayHello |-> [type |-> "function", name |-> "sayHello"],
     name     |-> [type |-> "string"]]
\* no objectHooks call with a hook map made so far
NotApplied == [hooks |-> <<>>, threw |-> NoError]
\* the error objectHooks throws for a property that is not a function
ConfigurationError(method) ==
    [k |-> "Can not apply hooks. is not a function", n |-> 0, method |-> method]
\* typeof value === 'function'
IsFunction(value) == value.type = "function"
\* a function that functionHooks returned
IsWrapper(value) == IsFunction(value) /\ value.name = "wrapper"

NoSelf == "undefined"
\* what middleware can be registered on: an object, the wrapped function,
\* the prototype of a class and the prototype of a class that extends it
Targets == {"obj", "fn", "base", "sub"}
\* the `this` of a call: none, the object, an instance of the subclass
Receivers == {"obj", "inst", NoSelf}
\* the wrappers that objectHooks puts in the place of the methods
Wrappers == {"sayHi", "sayHello"}
\* the prototype chain
Prototype == [inst |-> "sub", sub |-> "base"]
ArgLists == {<<Arg(1)>>, <<Arg(1), Arg(2)>>}
\* the parameter names given to withParams
ParamLists == {<<>>, <<"a">>, <<"a", "b">>}

(***************************************************************************)
(* Registration: the HOOKS property of a target                            *)
(***************************************************************************)
NoHooks == [own |-> FALSE, mw |-> <<>>]

\* target[HOOKS] || []: the own property, or the one found along the
\* prototype chain
RECURSIVE HooksOf(_, _)
HooksOf(H, target) ==
    IF target \in DOMAIN H /\ H[target].own THEN H[target].mw
    ELSE IF target \in DOMAIN Prototype THEN HooksOf(H, Prototype[target])
    ELSE <<>>

registerMiddlewarePrepend(H, target, middleware) ==
    [H EXCEPT ![target] = [own |-> TRUE, mw |-> middleware \o HooksOf(H, target)]]

registerMiddlewareInPlace(H, target, middleware) ==
    LET proto  == IF target \in DOMAIN Prototype THEN Prototype[target] ELSE target
        shared == ~H[target].own /\ proto # target /\ H[proto].own
    IN [t \in DOMAIN H |->
           IF t = target
           THEN [own |-> TRUE, mw |-> HooksOf(H, target) \o middleware]
           ELSE IF shared /\ t = proto
           THEN [own |-> TRUE, mw |-> H[t].mw \o middleware]
           ELSE H[t]]

registerMiddlewareReplace(H, target, middleware) ==
    [H EXCEPT ![target] = [own |-> TRUE, mw |-> middleware]]

registerMiddleware(H, target, middleware) ==
    [H EXCEPT ![target] = [own |-> TRUE, mw |-> HooksOf(H, target) \o middleware]]

getMiddleware(H, target) ==
    IF target = NoSelf THEN <<>> ELSE HooksOf(H, target)

defaultCollectMiddlewareFnFirst(H, self, fn) ==
    getMiddleware(H, fn) \o getMiddleware(H, self)

defaultCollectMiddleware(H, self, fn) ==
    getMiddleware(H, self) \o getMiddleware(H, fn)

(***************************************************************************)
(* The hook context                                                        *)
(***************************************************************************)
\* new HookContext(data): the fields of data, everything else undefined
\* (named: the properties other than result, self, method and arguments)
HookContext(data) ==
    [result    |-> IF "result" \in DOMAIN data THEN data.result ELSE Undef,
     self      |-> NoSelf,
     method    |-> IF "method" \in DOMAIN data THEN data.method ELSE "undefined",
     arguments |-> <<>>,
     named     |-> [key \in DOMAIN data \ {"result", "method"} |-> data[key]],
     getter    |-> <<>>]

NewContextShared(h, data) ==
    IF Len(h) > 0 THEN [heap |-> h, ref |-> 1]
    ELSE [heap |-> Append(h, HookContext(data)), ref |-> 1]

\* the expression `new HookContext(data)`: a fresh instance
NewContext(h, data) ==
    [heap |-> Append(h, HookContext(data)), ref |-> Len(h) + 1]

\* context.arguments: the getter withParams defined, or the plain property
ArgumentsOf(ctx) ==
    IF Len(ctx.getter) > 0
    THEN [i \in 1..Len(ctx.getter) |-> ctx.named[ctx.getter[i]]]
    ELSE ctx.arguments

SetNamed(ctx, params, args) ==
    [ctx EXCEPT !.named =
        [nm \in (DOMAIN ctx.named) \cup {params[i] : i \in 1..Len(params)} |->
            IF \E i \in 1..Len(params) : params[i] = nm
            THEN LET i == CHOOSE j \in 1..Len(params) :
                          params[j] = nm /\ \A l \in (j+1)..Len(params) : params[l] # nm
                 IN IF i <= Len(args) THEN args[i] ELSE Undef
            ELSE ctx.named[nm]]]

withParamsBodyEager(params, self, args, ctx) ==
    LET c1 == SetNamed(ctx, params, args)
        c2 == [c1 EXCEPT !.arguments = [i \in 1..Len(params) |-> c1.named[params[i]]]]
    IN IF self # NoSelf THEN [c2 EXCEPT !.self = self] ELSE c2

withParamsBodyPlain(params, self, args, ctx) ==
    LET c1 == SetNamed(ctx, params, args)
        c2 == [c1 EXCEPT !.arguments = args]
    IN IF self # NoSelf THEN [c2 EXCEPT !.self = self] ELSE c2

withParamsBody(params, self, args, ctx) ==
    LET c1 == SetNamed(ctx, params, args)
        c2 == IF Len(params) > 0
              THEN [c1 EXCEPT !.getter = params]
              ELSE [c1 EXCEPT !.arguments = args]
    IN IF self # NoSelf THEN [c2 EXCEPT !.self = self] ELSE c2

AssignArgumentsSettable(ctx, value, strict) ==
    [ctx |-> [ctx EXCEPT !.arguments = value, !.getter = <<>>], threw |-> FALSE]

\* context.arguments = value
AssignArguments(ctx, value, strict) ==
    IF Len(ctx.getter) > 0
    THEN [ctx |-> ctx, threw |-> strict]
    ELSE [ctx |-> [ctx EXCEPT !.arguments = value], threw |-> FALSE]

\* context.arguments[0] = value
WriteArgument(ctx, value, strict) ==
    IF Len(ctx.getter) > 0
    THEN [ctx |-> ctx, threw |-> strict]
    ELSE IF Len(ctx.arguments) > 0
    THEN [ctx |-> [ctx EXCEPT !.arguments[1] = value], threw |-> FALSE]
    ELSE [ctx |-> ctx, threw |-> FALSE]

withParamsCopy(params, self, args, h, ref) ==
    [heap |-> Append(h, withParamsBody(params, self, args, h[ref])),
     ref  |-> Len(h) + 1]

\* the updater withParams(...params) applied to (self, fn, args, context)
withParams(params, self, args, h, ref) ==
    [heap |-> [h EXCEPT ![ref] = withParamsBody(params, self, args, h[ref])],
     ref  |-> ref]

\* context[key]
GetField(ctx, key) ==
    IF key = "result" THEN ctx.result
    ELSE IF key \in DOMAIN ctx.named THEN ctx.named[key]
    ELSE Undef

\* context[key] = value
SetField(ctx, key, value) ==
    IF key = "result" THEN [ctx EXCEPT !.result = value]
    ELSE [ctx EXCEPT !.named =
              [nm \in (DOMAIN ctx.named) \cup {key} |->
                  IF nm = key THEN value ELSE ctx.named[nm]]]

Falsy(value) == value \in {Undef, Null, Zero, False, EmptyString}

\* value === undefined
StrictlyUndefined(value) == value = Undef

\* for (const key of keys) { if (context[key] === undefined) ... }
RECURSIVE withDefaultsLoop(_, _, _)
withDefaultsLoop(defaults, keys, ctx) ==
    IF keys = {} THEN ctx
    ELSE LET key == CHOOSE k \in keys : TRUE
         IN withDefaultsLoop(defaults, keys \ {key},
                IF StrictlyUndefined(GetField(ctx, key))
                THEN SetField(ctx, key, defaults[key])
                ELSE ctx)

\* the updater withDefaults(defaults) applied to a context
withDefaults(defaults, ctx) == withDefaultsLoop(defaults, DOMAIN defaults, ctx)

\* updater(self, fn, args, context) for a value that is an updater made by
\* withParams or the updater objectHooks makes for a method; calling a
\* value that is not a function throws
RECURSIVE CallUpdater(_, _, _, _, _)
CallUpdater(updater, self, args, h, ref) ==
    IF updater.type # "function"
    THEN [heap |-> h, ref |-> ref, threw |-> NotCallable]
    ELSE IF updater.name = "withParams"
    THEN LET r == withParams(updater.params, self, args, h, ref)
         IN [heap |-> r.heap, ref |-> r.ref, threw |-> NoError]
    ELSE LET r == CallUpdater(updater.originalContext, self, args, h, ref)
         IN IF r.threw # NoError THEN r
            ELSE [heap |-> [r.heap EXCEPT ![r.ref].method = updater.method],
                  ref |-> r.ref, threw |-> NoError]

\* the context updaters of a wrapped function applied in order
RECURSIVE UpdateContext(_, _, _, _, _)
UpdateContext(updaters, self, args, h, ref) ==
    IF Len(updaters) = 0 THEN [heap |-> h, ref |-> ref, threw |-> NoError]
    ELSE LET r == CallUpdater(Head(updaters), self, args, h, ref)
         IN IF r.threw # NoError THEN r
            ELSE UpdateContext(Tail(updaters), self, args, r.heap, r.ref)

(***************************************************************************)
(* objectHooks with a hook map                                             *)
(***************************************************************************)
\* hook settings: an array of middleware, or an options object
ArraySettings(middleware) == [type |-> "array", items |-> middleware]
OptionSettings(middleware, context) ==
    [type |-> "object", middleware |-> middleware, context |-> context]

normalizeOptions(opts) ==
    LET options == IF opts.type = "array" THEN [middleware |-> opts.items] ELSE opts
        middleware == IF "middleware" \in DOMAIN options THEN options.middleware ELSE <<>>
        context == IF "context" \in DOMAIN options THEN options.context
                   ELSE WithParams(<<>>)
        contextUpdaters == IF context.type = "array" THEN context.items ELSE <<context>>
    IN [middleware |-> middleware,
        context    |-> [type |-> "array", items |-> contextUpdaters],
        collect    |-> "defaultCollectMiddleware"]

\* functionHooks(original, opts): the wrapper, its middleware registered on
\* it (the wrapper of a method is named by the method)
functionHooks(H, method, original, opts) ==
    LET options == normalizeOptions(opts)
    IN [wrapper |-> [type |-> "function", name |-> "wrapper",
                     original |-> original, context |-> options.context.items],
        HOOKS   |-> registerMiddleware(H, method, options.middleware)]

RECURSIVE ReduceHooksUnchecked(_, _, _, _)
ReduceHooksUnchecked(o, H, hooks, i) ==
    IF i > Len(hooks) THEN [obj |-> o, HOOKS |-> H, threw |-> NoError]
    ELSE LET method == hooks[i].key
             options == normalizeOptions(hooks[i].settings)
             context == [type |-> "function", name |-> "context",
                         originalContext |-> options.context, method |-> method]
             w == functionHooks(H, method, o[method],
                                OptionSettings(options.middleware, context))
         IN ReduceHooksUnchecked([o EXCEPT ![method] = w.wrapper], w.HOOKS, hooks, i + 1)

\* Object.keys(hooks).reduce(..., obj) from the i-th key on: every method
\* named is replaced in obj by its wrapper, until a key names something
\* that is not a function
RECURSIVE ReduceHooks(_, _, _, _)
ReduceHooks(o, H, hooks, i) ==
    IF i > Len(hooks) THEN [obj |-> o, HOOKS |-> H, threw |-> NoError]
    ELSE LET method == hooks[i].key
             value == o[method]
             options == normalizeOptions(hooks[i].settings)
             originalContext == options.context
             context == [type |-> "function", name |-> "context",
                         originalContext |-> originalContext, method |-> method]
         IN IF ~IsFunction(value)
            THEN [obj |-> o, HOOKS |-> H, threw |-> ConfigurationError(method)]
            ELSE LET w == functionHooks(H, method, value,
                                        OptionSettings(options.middleware, context))
                 IN ReduceHooks([o EXCEPT ![method] = w.wrapper], w.HOOKS, hooks, i + 1)

\* the hook maps with the given keys whose i-th entry holds the middleware
\* first + i, as an array or as options with a context updater
HookMaps(keys, first) ==
    {[i \in 1..Len(keys) |->
        [key |-> keys[i],
         settings |-> IF kinds[i] = "array" THEN ArraySettings(<<first + i>>)
                      ELSE OptionSettings(<<first + i>>, WithParams(<<"a">>))]] :
     kinds \in [1..Len(keys) -> {"array", "options"}]}

\* the lists of at most n different properties of the object
KeyLists(n) ==
    {keys \in UNION {[1..l -> DOMAIN Object] : l \in 1..n} :
        \A i, j \in 1..Len(keys) : i # j => keys[i] # keys[j]}

(***************************************************************************)
(* One call of the wrapped function                                        *)
(***************************************************************************)
IdleCall ==
    [status |-> "idle", self |-> NoSelf, args |-> <<>>, chain |-> <<>>,
     base |-> 0, ctx |-> 0, index |-> 0, cur |-> 0, flow |-> "none",
     err |-> NoError, frames |-> <<>>, parked |-> FALSE,
     log |-> <<>>, raised |-> {}, unwind |-> <<>>, written |-> Undef,
     original |-> 0, calledWith |-> <<>>, value |-> Undef, collected |-> 0,
     fn |-> "undefined", returnContext |-> FALSE, raw |-> <<>>]

IdleFrame ==
    [pc |-> "idle", nexts |-> 0, ctx |-> 0, entered |-> 0, sets |-> {},
     caught |-> FALSE, left |-> Undef, wrote |-> {}, tried |-> {}]

N(call) == Len(call.chain)

Before(call, i) == [ev |-> "before", pos |-> i, hook |-> call.chain[i]]
After(call, i) == [ev |-> "after", pos |-> i, hook |-> call.chain[i]]
Original(call) == [ev |-> "original", pos |-> N(call) + 1, hook |-> 0]

Sections == {"before", "after", "catch"}

\* the middleware at position call.cur is inside one of its sections
InSection(call) ==
    /\ call.status = "running"
    /\ call.cur \in 1..N(call)
    /\ call.flow = "run"
    /\ call.frames[call.cur].pc \in Sections

\* ... and executes user code (it is not suspended at an await of its own)
Running(call) == InSection(call) /\ ~call.parked

DispatchOffByOne(call, i) ==
    IF i < call.index
    THEN [call EXCEPT !.flow = "throw", !.err = ProtocolViolation(i - 1),
                      !.raised = @ \cup {ProtocolViolation(i - 1)}]
    ELSE IF i <= N(call)
    THEN [call EXCEPT !.index = i, !.cur = i, !.flow = "run",
                      !.frames[i].pc = "before", !.frames[i].ctx = call.ctx,
                      !.frames[i].entered = @ + 1,
                      !.log = Append(@, Before(call, i))]
    ELSE [call EXCEPT !.index = i, !.cur = i, !.flow = "run"]

\* compose: dispatch(i), the next() handed to position i - 1
Dispatch(call, i) ==
    IF i <= call.index
    THEN [call EXCEPT !.flow = "throw", !.err = ProtocolViolation(i - 1),
                      !.raised = @ \cup {ProtocolViolation(i - 1)}]
    ELSE IF i <= N(call)
    THEN [call EXCEPT !.index = i, !.cur = i, !.flow = "run",
                      !.frames[i].pc = "before", !.frames[i].ctx = call.ctx,
                      !.frames[i].entered = @ + 1,
                      !.log = Append(@, Before(call, i))]
    ELSE [call EXCEPT !.index = i, !.cur = i, !.flow = "run"]

(***************************************************************************)
(* Actions                                                                 *)
(***************************************************************************)
Init ==
    /\ HOOKS = [t \in Targets \cup Wrappers |-> NoHooks]
    /\ made = 0
    /\ heap = <<>>
    /\ lim = [chain |-> MaxChain, calls |-> 1,
              targets |-> {"fn"}, receivers |-> {NoSelf},
              params |-> <<>>, args |-> {<<Arg(1)>>}]
    /\ calls = [c \in 1..lim.calls |-> IdleCall]
    /\ obj = Object
    /\ applied = NotApplied

\* hooks(target, [mw, ...]) with k new middleware functions
Register(target, k) ==
    /\ target \in lim.targets
    /\ made + k <= lim.chain
    /\ HOOKS' = registerMiddleware(HOOKS, target, [i \in 1..k |-> made + i])
    /\ made' = made + k
    /\ UNCHANGED <<heap, calls, lim, obj, applied>>

\* the wrapper of fn called with (...raw) on self: take the context passed
\* as last argument or make one, apply the context updaters, collect the
\* chain, start the chain (calls are numbered in the order they are made)
Wrapper(c, self, fn, raw, updaters) ==
    /\ calls[c].status = "idle"
    /\ \A d \in 1..(c - 1) : calls[d].status # "idle"
    /\ LET returnContext == Len(raw) > 0 /\ raw[Len(raw)].k = "HookContext"
           args  == IF returnContext THEN SubSeq(raw, 1, Len(raw) - 1) ELSE raw
           fresh == IF returnContext THEN [heap |-> heap, ref |-> raw[Len(raw)].n]
                    ELSE NewContext(heap, <<>>)
           upd   == UpdateContext(updaters, self, args, fresh.heap, fresh.ref)
           chain == defaultCollectMiddleware(HOOKS, self, fn)
           call  == [calls[c] EXCEPT
                        !.status = "running", !.self = self, !.args = args,
                        !.raw = raw,
                        !.fn = fn, !.returnContext = returnContext,
                        !.chain = chain, !.collected = made,
                        !.base = fresh.ref, !.ctx = upd.ref,
                        !.frames = [i \in 1..Len(chain) |-> IdleFrame]]
       IN /\ heap' = upd.heap
          /\ calls' = [calls EXCEPT ![c] =
                IF upd.threw = NoError THEN Dispatch(call, 1)
                ELSE [calls[c] EXCEPT
                         !.status = "threw", !.value = upd.threw,
                         !.self = self, !.args = args, !.fn = fn,
                         !.raw = raw,
                         !.returnContext = returnContext,
                         !.base = fresh.ref, !.ctx = upd.ref,
                         !.raised = {upd.threw}]]
    /\ UNCHANGED <<HOOKS, made, lim, obj, applied>>

\* a call of the function wrapped with hooks(fn, middleware, withParams(...))
Invoke(c, self, args) ==
    /\ self \in lim.receivers
    /\ args \in lim.args
    /\ Wrapper(c, self, "fn", args, <<WithParams(lim.params)>>)

\* the caller makes a context: new HookContext(data)
CreateContext(data) ==
    /\ heap = <<>>
    /\ heap' = NewContext(heap, data).heap
    /\ UNCHANGED <<HOOKS, made, calls, lim, obj, applied>>

\* a call of the wrapped function with a context the caller made as the
\* additional last argument
InvokeWithContext(c, self, args, ref) ==
    /\ self \in lim.receivers
    /\ args \in lim.args
    /\ ref \in 1..Len(heap)
    /\ \A d \in DOMAIN calls : calls[d].status # "idle" => calls[d].base # ref
    /\ Wrapper(c, self, "fn", Append(args, ContextValue(ref)),
               <<WithParams(lim.params)>>)

\* withDefaults(defaults)(self, fn, args, context) on the context at 1
ApplyDefaults(defaults) ==
    /\ Len(heap) > 0
    /\ heap' = [heap EXCEPT ![1] = withDefaults(defaults, heap[1])]
    /\ UNCHANGED <<HOOKS, made, calls, lim, obj, applied>>

\* a call of a method of the object that objectHooks wrapped
InvokeMethod(c, method, args) ==
    /\ IsWrapper(obj[method])
    /\ args \in lim.args
    /\ Wrapper(c, "obj", method, args, obj[method].context)

\* objectHooks(obj, hooks) with a hook map; every method is wrapped once
ObjectHooks(hooks) ==
    /\ made + Len(hooks) <= lim.chain
    /\ \A i \in 1..Len(hooks) : ~IsWrapper(obj[hooks[i].key])
    /\ LET r == ReduceHooks(obj, HOOKS, hooks, 1)
       IN /\ obj' = r.obj
          /\ HOOKS' = r.HOOKS
          /\ applied' = [hooks |-> hooks, threw |-> r.threw]
    /\ made' = made + Len(hooks)
    /\ UNCHANGED <<heap, calls, lim>>

\* original.apply(self, context.arguments), its result kept in context.result
InvokeOriginal(call, ctx, ok) ==
    IF ok
    THEN [call |-> [call EXCEPT !.original = @ + 1,
                                !.calledWith = ArgumentsOf(ctx),
                                !.log = Append(@, Original(call)),
                                !.written = Returned,
                                !.flow = "ret", !.cur = N(call)],
          ctx  |-> [ctx EXCEPT !.result = Returned]]
    ELSE [call |-> [call EXCEPT !.original = @ + 1,
                                !.calledWith = ArgumentsOf(ctx),
                                !.log = Append(@, Original(call)),
                                !.flow = "throw",
                                !.err = Failure(N(call) + 1),
                                !.raised = @ \cup {Failure(N(call) + 1)},
                                !.cur = N(call)],
          ctx  |-> ctx]

OriginalLinkAlways(call, ctx, ok) == InvokeOriginal(call, ctx, ok)

OriginalLinkDropsResult(call, ctx, ok) ==
    IF ctx.result = Undef
    THEN [call |-> InvokeOriginal(call, ctx, ok).call, ctx |-> ctx]
    ELSE [call |-> [call EXCEPT !.flow = "ret", !.cur = N(call)],
          ctx  |-> ctx]

\* the last link of the chain: runs the original function unless
\* context.result is already set
OriginalLink(call, ctx, ok) ==
    IF ctx.result = Undef
    THEN InvokeOriginal(call, ctx, ok)
    ELSE [call |-> [call EXCEPT !.flow = "ret", !.cur = N(call)],
          ctx  |-> ctx]

\* the positions at which a failure of next() arrived, in order
Delivered(unwind, i) ==
    IF Len(unwind) > 0 /\ unwind[Len(unwind)] = i THEN unwind ELSE Append(unwind, i)

SettledWrapped(call, catches) ==
    LET i == call.cur IN
    IF call.flow = "ret"
    THEN [call EXCEPT !.flow = "run", !.frames[i].pc = "after",
                      !.log = Append(@, After(call, i))]
    ELSE IF catches
    THEN [call EXCEPT !.flow = "run", !.err = NoError,
                      !.frames[i].pc = "catch", !.frames[i].caught = TRUE,
                      !.unwind = Delivered(@, i)]
    ELSE [call EXCEPT !.frames[i].pc = "failed", !.cur = i - 1,
                      !.err = Failure(i),
                      !.unwind = Delivered(@, i)]

\* the promise of next() settles: the middleware suspended at position
\* call.cur resumes after its await, in its catch block, or fails with the
\* same error
Settled(call, catches) ==
    LET i == call.cur IN
    IF call.flow = "ret"
    THEN [call EXCEPT !.flow = "run", !.frames[i].pc = "after",
                      !.log = Append(@, After(call, i))]
    ELSE IF catches
    THEN [call EXCEPT !.flow = "run", !.err = NoError,
                      !.frames[i].pc = "catch", !.frames[i].caught = TRUE,
                      !.unwind = Delivered(@, i)]
    ELSE [call EXCEPT !.frames[i].pc = "failed", !.cur = i - 1,
                      !.unwind = Delivered(@, i)]

OutcomeReturned(call, ctx) ==
    IF call.flow = "throw"
    THEN [call EXCEPT !.status = "rejected", !.value = call.err, !.flow = "none"]
    ELSE [call EXCEPT !.status = "resolved", !.flow = "none",
                      !.value = IF call.original > 0 THEN Returned ELSE Undef]

OutcomeSticky(call, ctx) ==
    IF call.flow = "throw" \/ call.raised # {}
    THEN [call EXCEPT !.status = "rejected", !.flow = "none",
                      !.value = IF call.flow = "throw" THEN call.err
                                ELSE CHOOSE e \in call.raised : TRUE]
    ELSE [call EXCEPT !.status = "resolved", !.value = ctx.result, !.flow = "none"]

OutcomeResultOnly(call, ctx) ==
    IF call.flow = "throw"
    THEN [call EXCEPT !.status = "rejected", !.value = call.err, !.flow = "none"]
    ELSE [call EXCEPT !.status = "resolved", !.value = ctx.result, !.flow = "none"]

\* what the promise of the wrapped call settles with: context.result, or
\* the context when the caller passed one
Outcome(call, ctx) ==
    IF call.flow = "throw"
    THEN [call EXCEPT !.status = "rejected", !.value = call.err, !.flow = "none"]
    ELSE [call EXCEPT !.status = "resolved", !.flow = "none",
                      !.value = IF call.returnContext THEN ContextValue(call.ctx)
                                ELSE ctx.result]

\* an await inside a before or after section that is not the await of
\* next(): the middleware suspends, any number of times
MwAwait(c) ==
    /\ Running(calls[c])
    /\ calls[c].frames[calls[c].cur].pc \in {"before", "after"}
    /\ calls' = [calls EXCEPT ![c].parked = TRUE]
    /\ UNCHANGED <<HOOKS, made, heap, lim, obj, applied>>

\* ... and is resumed
MwWake(c) ==
    /\ InSection(calls[c])
    /\ calls[c].parked
    /\ calls' = [calls EXCEPT ![c].parked = FALSE]
    /\ UNCHANGED <<HOOKS, made, heap, lim, obj, applied>>

\* context.result = value, before next() or in the catch block
MwSetResult(c) ==
    LET call == calls[c]
        i == call.cur
    IN /\ Running(call)
       /\ call.frames[i].pc \in {"before", "catch"} \ call.frames[i].sets
       /\ heap' = [heap EXCEPT ![call.frames[i].ctx].result = Assigned(i)]
       /\ calls' = [calls EXCEPT ![c].frames[i].sets = @ \cup {call.frames[i].pc},
                                 ![c].written = Assigned(i)]
       /\ UNCHANGED <<HOOKS, made, lim, obj, applied>>

\* await next(), a first time or again (nexts: 0, 1, 2 = more than once)
MwCallNext(c) ==
    LET call == calls[c]
        i == call.cur
    IN /\ Running(call)
       /\ calls' = [calls EXCEPT ![c] =
             Dispatch([call EXCEPT
                          !.frames[i].nexts = IF @ < 2 THEN @ + 1 ELSE @,
                          !.frames[i].pc = "waiting"], i + 1)]
       /\ UNCHANGED <<HOOKS, made, heap, lim, obj, applied>>

\* the middleware returns
MwReturn(c) ==
    LET call == calls[c]
        i == call.cur
    IN /\ Running(call)
       /\ calls' = [calls EXCEPT ![c] =
             [call EXCEPT !.frames[i].pc = "done",
                          !.frames[i].left = heap[call.frames[i].ctx].result,
                          !.flow = "ret", !.cur = i - 1]]
       /\ UNCHANGED <<HOOKS, made, heap, lim, obj, applied>>

\* the middleware throws
MwThrow(c) ==
    LET call == calls[c]
        i == call.cur
    IN /\ Running(call)
       /\ calls' = [calls EXCEPT ![c] =
             [call EXCEPT !.frames[i].pc = "failed",
                          !.flow = "throw", !.err = Failure(i),
                          !.raised = @ \cup {Failure(i)},
                          !.cur = i - 1]]
       /\ UNCHANGED <<HOOKS, made, heap, lim, obj, applied>>

\* context[name] = value, before next()
MwSetNamed(c, name) ==
    LET call == calls[c]
        i == call.cur
    IN /\ Running(call)
       /\ call.frames[i].pc = "before"
       /\ name \in DOMAIN heap[call.frames[i].ctx].named
       /\ call.frames[i].wrote = {}
       /\ heap' = [heap EXCEPT ![call.frames[i].ctx].named[name] = Changed(i)]
       /\ calls' = [calls EXCEPT ![c].frames[i].wrote = @ \cup {name}]
       /\ UNCHANGED <<HOOKS, made, lim, obj, applied>>

\* context.arguments = [value] or context.arguments[0] = value, before
\* next(); a write that is refused is ignored or, in strict mode, throws
MwWriteArguments(c, how, strict) ==
    LET call == calls[c]
        i == call.cur
        ctx == heap[call.frames[i].ctx]
        r == IF how = "assign" THEN AssignArguments(ctx, <<Changed(i)>>, strict)
             ELSE WriteArgument(ctx, Changed(i), strict)
    IN /\ Running(call)
       /\ call.frames[i].pc = "before"
       /\ call.frames[i].tried = {}
       /\ heap' = [heap EXCEPT ![call.frames[i].ctx] = r.ctx]
       /\ calls' = [calls EXCEPT ![c] =
             IF r.threw
             THEN [call EXCEPT !.frames[i].tried = @ \cup {how},
                               !.frames[i].pc = "failed",
                               !.flow = "throw", !.err = TypeError(i),
                               !.raised = @ \cup {TypeError(i)},
                               !.cur = i - 1]
             ELSE [call EXCEPT !.frames[i].tried = @ \cup {how}]]
       /\ UNCHANGED <<HOOKS, made, lim, obj, applied>>

CallOriginal(c, ok) ==
    LET call == calls[c]
    IN /\ call.status = "running"
       /\ call.cur = N(call) + 1
       /\ call.flow = "run"
       /\ LET r == OriginalLink(call, heap[call.ctx], ok)
          IN /\ calls' = [calls EXCEPT ![c] = r.call]
             /\ heap' = [heap EXCEPT ![call.ctx] = r.ctx]
       /\ UNCHANGED <<HOOKS, made, lim, obj, applied>>

Resume(c, catches) ==
    LET call == calls[c]
    IN /\ call.status = "running"
       /\ call.cur \in 1..N(call)
       /\ call.flow \in {"ret", "throw"}
       /\ call.frames[call.cur].pc = "waiting"
       /\ calls' = [calls EXCEPT ![c] = Settled(call, catches)]
       /\ UNCHANGED <<HOOKS, made, heap, lim, obj, applied>>

Finish(c) ==
    LET call == calls[c]
    IN /\ call.status = "running"
       /\ call.cur = 0
       /\ call.flow \in {"ret", "throw"}
       /\ calls' = [calls EXCEPT ![c] = Outcome(call, heap[call.ctx])]
       /\ UNCHANGED <<HOOKS, made, heap, lim, obj, applied>>

Next ==
    \/ \E t \in Targets, k \in 1..MaxReg : Register(t, k)
    \/ \E c \in DOMAIN calls, s \in Receivers, a \in ArgLists : Invoke(c, s, a)
    \/ \E c \in DOMAIN calls : MwAwait(c)
    \/ \E c \in DOMAIN calls : MwWake(c)
    \/ \E c \in DOMAIN calls : MwSetResult(c)
    \/ \E c \in DOMAIN calls : MwCallNext(c)
    \/ \E c \in DOMAIN calls : MwReturn(c)
    \/ \E c \in DOMAIN calls : MwThrow(c)
    \/ \E c \in DOMAIN calls, ok \in BOOLEAN : CallOriginal(c, ok)
    \/ \E c \in DOMAIN calls, catches \in BOOLEAN : Resume(c, catches)
    \/ \E c \in DOMAIN calls : Finish(c)

Spec == Init /\ [][Next]_vars

\* two calls of the same wrapped function in flight
InitConc ==
    /\ HOOKS = [t \in Targets \cup Wrappers |-> NoHooks]
    /\ made = 0
    /\ heap = <<>>
    /\ lim = [chain |-> MaxChainConc, calls |-> 2,
              targets |-> {"fn"}, receivers |-> {NoSelf},
              params |-> <<>>, args |-> {<<Arg(1)>>}]
    /\ calls = [c \in 1..lim.calls |-> IdleCall]
    /\ obj = Object
    /\ applied = NotApplied

SpecConc == InitConc /\ [][Next]_vars

\* one call of a function wrapped with named parameters: what the
\* middleware do with the arguments
InitParams ==
    /\ HOOKS = [t \in Targets \cup Wrappers |-> NoHooks]
    /\ made = 0
    /\ heap = <<>>
    /\ lim \in {[chain |-> MaxChainParams, calls |-> 1,
                 targets |-> {"fn"}, receivers |-> {NoSelf},
                 params |-> ps, args |-> ArgLists] : ps \in ParamLists}
    /\ calls = [c \in 1..lim.calls |-> IdleCall]
    /\ obj = Object
    /\ applied = NotApplied

NextParams ==
    \/ \E t \in Targets, k \in 1..MaxReg : Register(t, k)
    \/ \E c \in DOMAIN calls, s \in Receivers, a \in ArgLists : Invoke(c, s, a)
    \/ \E c \in DOMAIN calls, nm \in {"a", "b"} : MwSetNamed(c, nm)
    \/ \E c \in DOMAIN calls, how \in {"assign", "element"}, strict \in BOOLEAN :
          MwWriteArguments(c, how, strict)
    \/ \E c \in DOMAIN calls : MwCallNext(c)
    \/ \E c \in DOMAIN calls : MwReturn(c)
    \/ \E c \in DOMAIN calls, ok \in BOOLEAN : CallOriginal(c, ok)
    \/ \E c \in DOMAIN calls, catches \in BOOLEAN : Resume(c, catches)
    \/ \E c \in DOMAIN calls : Finish(c)

SpecParams == InitParams /\ [][NextParams]_vars

\* one call, as a plain function, as a method of the object or as a method
\* of an instance of the subclass; middleware registered on the object, on
\* the function and on the two prototypes
InitCollect ==
    /\ HOOKS = [t \in Targets \cup Wrappers |-> NoHooks]
    /\ made = 0
    /\ heap = <<>>
    /\ lim = [chain |-> MaxChainCollect, calls |-> 1,
              targets |-> Targets, receivers |-> Receivers,
              params |-> <<>>, args |-> {<<Arg(1)>>}]
    /\ calls = [c \in 1..lim.calls |-> IdleCall]
    /\ obj = Object
    /\ applied = NotApplied

NextCollect ==
    \/ \E t \in Targets, k \in 1..MaxReg : Register(t, k)
    \/ \E c \in DOMAIN calls, s \in Receivers, a \in ArgLists : Invoke(c, s, a)
    \/ \E c \in DOMAIN calls : MwCallNext(c)
    \/ \E c \in DOMAIN calls : MwReturn(c)
    \/ \E c \in DOMAIN calls, ok \in BOOLEAN : CallOriginal(c, ok)
    \/ \E c \in DOMAIN calls, catches \in BOOLEAN : Resume(c, catches)
    \/ \E c \in DOMAIN calls : Finish(c)

SpecCollect == InitCollect /\ [][NextCollect]_vars

\* two calls, as a plain function or on an instance of the subclass, and
\* registrations before, between and while they run
InitLate ==
    /\ HOOKS = [t \in Targets \cup Wrappers |-> NoHooks]
    /\ made = 0
    /\ heap = <<>>
    /\ lim = [chain |-> MaxChainLate, calls |-> 2,
              targets |-> {"fn", "base", "sub"}, receivers |-> {NoSelf, "inst"},
              params |-> <<>>, args |-> {<<Arg(1)>>}]
    /\ calls = [c \in 1..lim.calls |-> IdleCall]
    /\ obj = Object
    /\ applied = NotApplied

NextLate ==
    \/ \E t \in Targets, k \in 1..MaxReg : Register(t, k)
    \/ \E c \in DOMAIN calls, s \in Receivers, a \in ArgLists : Invoke(c, s, a)
    \/ \E c \in DOMAIN calls : MwCallNext(c)
    \/ \E c \in DOMAIN calls : MwReturn(c)
    \/ \E c \in DOMAIN calls : CallOriginal(c, TRUE)
    \/ \E c \in DOMAIN calls : Resume(c, FALSE)
    \/ \E c \in DOMAIN calls : Finish(c)

SpecLate == InitLate /\ [][NextLate]_vars

\* one call of the wrapped function, with or without a context of the
\* caller as last argument
InitCtx ==
    /\ HOOKS = [t \in Targets \cup Wrappers |-> NoHooks]
    /\ made = 0
    /\ heap = <<>>
    /\ lim = [chain |-> MaxChainCtx, calls |-> 1,
              targets |-> {"fn"}, receivers |-> {NoSelf},
              params |-> <<>>, args |-> ArgLists]
    /\ calls = [c \in 1..lim.calls |-> IdleCall]
    /\ obj = Object
    /\ applied = NotApplied

NextCtx ==
    \/ \E t \in Targets, k \in 1..MaxReg : Register(t, k)
    \/ \E data \in ContextData : CreateContext(data)
    \/ \E c \in DOMAIN calls, s \in Receivers, a \in ArgLists : Invoke(c, s, a)
    \/ \E c \in DOMAIN calls, s \in Receivers, a \in ArgLists, ref \in 1..Len(heap) :
          InvokeWithContext(c, s, a, ref)
    \/ \E c \in DOMAIN calls : MwSetResult(c)
    \/ \E c \in DOMAIN calls : MwCallNext(c)
    \/ \E c \in DOMAIN calls : MwReturn(c)
    \/ \E c \in DOMAIN calls, ok \in BOOLEAN : CallOriginal(c, ok)
    \/ \E c \in DOMAIN calls, catches \in BOOLEAN : Resume(c, catches)
    \/ \E c \in DOMAIN calls : Finish(c)

SpecCtx == InitCtx /\ [][NextCtx]_vars

\* a context with or without named parameters, whose fields hold any of
\* the values, and the defaults updaters applied to it
InitDefaults ==
    /\ HOOKS = [t \in Targets \cup Wrappers |-> NoHooks]
    /\ made = 0
    /\ \E a \in FieldValues, b \in FieldValues, result \in {Undef, Zero},
          named \in BOOLEAN :
          heap = <<IF named
                   THEN withParamsBody(<<"a", "b">>, NoSelf, <<a, b>>,
                                       HookContext([result |-> result]))
                   ELSE withParamsBody(<<>>, NoSelf, <<Arg(1)>>,
                                       HookContext([result |-> result,
                                                    a |-> a, b |-> b]))>>
    /\ lim = [chain |-> 0, calls |-> 0, targets |-> {}, receivers |-> {},
              params |-> <<>>, args |-> {}]
    /\ calls = [c \in 1..lim.calls |-> IdleCall]
    /\ obj = Object
    /\ applied = NotApplied

NextDefaults == \E defaults \in Defaults : ApplyDefaults(defaults)

SpecDefaults == InitDefaults /\ [][NextDefaults]_vars

\* hook maps applied to the object, and calls of its wrapped methods
InitMap ==
    /\ HOOKS = [t \in Targets \cup Wrappers |-> NoHooks]
    /\ made = 0
    /\ heap = <<>>
    /\ lim = [chain |-> MaxKeys + 1, calls |-> 2,
              targets |-> {"obj"}, receivers |-> {"obj"},
              params |-> <<>>, args |-> {<<Arg(1)>>}]
    /\ calls = [c \in 1..lim.calls |-> IdleCall]
    /\ obj = Object
    /\ applied = NotApplied

NextMap ==
    \/ \E t \in Targets, k \in 1..MaxReg : Register(t, k)
    \/ \E keys \in KeyLists(MaxKeys) : \E hooks \in HookMaps(keys, made) :
          ObjectHooks(hooks)
    \/ \E c \in DOMAIN calls, m \in Wrappers, a \in ArgLists : InvokeMethod(c, m, a)

SpecMap == InitMap /\ [][NextMap]_vars

(***************************************************************************)
(* Properties                                                              *)
(***************************************************************************)
CallIds == DOMAIN calls
Started(call) == call.status # "idle"
Finished(call) == call.status \in {"resolved", "rejected"}
Positions(call) == 1..N(call)

IsPrefix(s, t) == Len(s) <= Len(t) /\ \A k \in 1..Len(s) : s[k] = t[k]

\* M1-before .. Mn-before, original, Mn-after .. M1-after
Onion(call) ==
    [k \in 1..(2 * N(call) + 1) |->
        IF k <= N(call) THEN Before(call, k)
        ELSE IF k = N(call) + 1 THEN Original(call)
        ELSE After(call, 2 * N(call) + 2 - k)]

\* the same without the original function
OnionSkipped(call) ==
    [k \in 1..(2 * N(call)) |->
        IF k <= N(call) THEN Before(call, k) ELSE After(call, 2 * N(call) + 1 - k)]

\* so far every middleware only wraps next(): none has assigned
\* context.result, failed, returned without next() or called next() again
Plain(call) ==
    /\ call.raised = {}
    /\ \A i \in Positions(call) :
          /\ call.frames[i].sets = {}
          /\ call.frames[i].nexts <= 1
          /\ call.frames[i].pc = "done" => call.frames[i].nexts = 1

EveryoneProceeds(call) == \A i \in Positions(call) : call.frames[i].nexts >= 1
SetBeforeNext(call) == \E i \in Positions(call) : "before" \in call.frames[i].sets
NobodyCatches(call) == \A i \in Positions(call) : ~call.frames[i].caught
NobodyAssigns(call) == \A i \in Positions(call) : call.frames[i].sets = {}

\* C1: onion order. The chain is in registration order, and in a call whose
\* middleware all call next() once (nothing fails, context.result is not
\* set before the original function is reached) the events are always a
\* prefix of M1-before..Mn-before, original, Mn-after..M1-after, and exactly
\* that sequence once the call has resolved, wherever the middleware
\* suspend inside their before and after sections.
C1_OnionOrder ==
    \A c \in CallIds :
        LET call == calls[c] IN
        /\ \A i, j \in Positions(call) : i < j => call.chain[i] < call.chain[j]
        /\ Plain(call) =>
              /\ IsPrefix(call.log, Onion(call))
              /\ call.status # "rejected"
              /\ call.status = "resolved" => call.log = Onion(call)

\* the outermost of three middleware is suspended inside its after section
\* and the whole onion has been observed
C1_Witness ==
    \E c \in CallIds :
        /\ N(calls[c]) = 3 /\ Plain(calls[c]) /\ calls[c].parked
        /\ calls[c].cur = 1 /\ calls[c].frames[1].pc = "after"
        /\ calls[c].log = Onion(calls[c])

\* C2: short-circuit. Once the middleware at position k has returned
\* without calling next(), no middleware after k and not the original
\* function has run or ever runs, and a call in which nothing fails
\* resolves with the context.result that middleware left.
C2_ShortCircuit ==
    \A c \in CallIds :
        LET call == calls[c] IN
        \A k \in Positions(call) :
            (call.frames[k].pc = "done" /\ call.frames[k].nexts = 0) =>
                /\ \A j \in Positions(call) : j > k =>
                      /\ call.frames[j].entered = 0
                      /\ \A e \in 1..Len(call.log) : call.log[e].pos # j
                /\ call.original = 0
                /\ call.index = k
                /\ (Finished(call) /\ call.raised = {}) =>
                      /\ call.status = "resolved"
                      /\ call.value = call.frames[k].left

C2_Witness ==
    \E c \in CallIds :
        /\ N(calls[c]) = 3
        /\ calls[c].frames[2].pc = "done" /\ calls[c].frames[2].nexts = 0
        /\ calls[c].status = "resolved" /\ calls[c].raised = {}
        /\ calls[c].value = Assigned(1)

LastSetBefore(call) ==
    LET setters == {i \in Positions(call) : "before" \in call.frames[i].sets}
    IN Assigned(CHOOSE i \in setters : \A j \in setters : j <= i)

\* C5: when a middleware sets context.result before its next(), the original
\* function is not called; if every middleware calls next() once and nothing
\* fails, all the middleware still run (before and after) and the call
\* resolves with the value that was set.
C5_ResultSkipsOriginal ==
    \A c \in CallIds :
        LET call == calls[c] IN
        (\E i \in Positions(call) :
            "before" \in call.frames[i].sets /\ call.frames[i].nexts >= 1) =>
            /\ call.original = 0
            /\ (Finished(call) /\ call.raised = {}
                  /\ \A i \in Positions(call) : call.frames[i].nexts = 1) =>
                  /\ call.log = OnionSkipped(call)
                  /\ call.status = "resolved"
                  /\ call.value = LastSetBefore(call)

C5_Witness ==
    \E c \in CallIds :
        /\ N(calls[c]) = 3
        /\ calls[c].frames[2].sets = {"before"}
        /\ calls[c].frames[1].sets = {} /\ calls[c].frames[3].sets = {}
        /\ calls[c].status = "resolved"
        /\ calls[c].log = OnionSkipped(calls[c])
        /\ calls[c].value = Assigned(2)

\* n, n-1, .., 1
Descending(n) == [k \in 1..n |-> n + 1 - k]

\* the innermost middleware suspended at the next() that failed with e
Innermost(e) == IF e.k = "Error" THEN e.n - 1 ELSE e.n

\* the last n elements of s
Suffix(s, n) == SubSeq(s, Len(s) - n + 1, Len(s))

\* from, from-1, .., to
Downwards(from, to) == [k \in 1..(from - to + 1) |-> from + 1 - k]

\* C6: uncaught failure. A failure e that is propagating, or that the call
\* rejected with, is an error that was raised in the call, unchanged; it has
\* arrived at the suspended next() of the middleware enclosing its origin
\* from the innermost outwards, none of which caught it; no middleware
\* enclosing the origin has run an after section; and a call in which a
\* failure is raised and no middleware catches never resolves: it rejects
\* with that one error.
C6_FailurePropagates ==
    \A c \in CallIds :
        LET call == calls[c]
            e == IF call.status = "rejected" THEN call.value ELSE call.err
        IN
        /\ (call.flow = "throw" \/ call.status = "rejected") =>
              /\ e \in call.raised
              /\ call.cur <= Innermost(e)
              /\ \A i \in 1..(e.n - 1) :
                    \A k \in 1..Len(call.log) : call.log[k] # After(call, i)
              /\ \A i \in 1..call.cur : call.frames[i].pc = "waiting"
              /\ \A i \in (call.cur + 1)..Innermost(e) : call.frames[i].pc = "failed"
              /\ Len(call.unwind) >= Innermost(e) - call.cur
              /\ Suffix(call.unwind, Innermost(e) - call.cur)
                    = Downwards(Innermost(e), call.cur + 1)
        /\ (call.raised # {} /\ NobodyCatches(call)) =>
              /\ Cardinality(call.raised) = 1
              /\ call.status # "resolved"
              /\ call.status = "rejected" =>
                    call.unwind = Descending(Innermost(call.value))

C6_Witness ==
    \E c \in CallIds :
        /\ N(calls[c]) = 3
        /\ calls[c].status = "rejected"
        /\ calls[c].value = Failure(4)
        /\ calls[c].unwind = <<3, 2, 1>>
        /\ NobodyCatches(calls[c])

\* C7: failure recovery. Once a middleware that caught a failure of its
\* next() has returned, every middleware outside it (reached through
\* middleware that return) sees its own next() complete and runs its after
\* section; and when the outermost catching middleware assigned
\* context.result in its catch block and the middleware outside it just
\* return, the call resolves with that value.
C7_FailureRecovered ==
    \A c \in CallIds :
        LET call == calls[c] IN
        \A k \in Positions(call) :
            (call.frames[k].caught /\ call.frames[k].pc = "done") =>
                /\ \A i \in 1..(k - 1) :
                      (\A j \in (i + 1)..(k - 1) : call.frames[j].pc = "done") =>
                          \/ call.frames[i].pc = "waiting"
                          \/ \E e \in 1..Len(call.log) : call.log[e] = After(call, i)
                /\ ( /\ k > 1 /\ call.cur = k - 1
                     /\ call.frames[k - 1].pc = "waiting"
                     /\ call.frames[k - 1].nexts = 1 ) => call.flow = "ret"
                /\ ( /\ Finished(call)
                     /\ "catch" \in call.frames[k].sets
                     /\ \A i \in 1..(k - 1) :
                           /\ ~call.frames[i].caught
                           /\ call.frames[i].pc = "done"
                           /\ call.frames[i].nexts = 1 ) =>
                      /\ call.status = "resolved"
                      /\ call.value = Assigned(k)

C7_Witness ==
    \E c \in CallIds :
        /\ N(calls[c]) = 3
        /\ calls[c].raised = {Failure(4)}
        /\ calls[c].frames[2].caught /\ ~calls[c].frames[3].caught
        /\ calls[c].frames[1].pc = "done" /\ calls[c].frames[1].sets = {}
        /\ \E e \in 1..Len(calls[c].log) : calls[c].log[e] = After(calls[c], 1)
        /\ calls[c].status = "resolved"
        /\ calls[c].value = Assigned(2)

\* C8: result propagation. When the original function has returned and no
\* middleware has assigned context.result, every middleware that is in its
\* after section reads the returned value from context.result, and the call
\* resolves with it.
C8_ResultPropagates ==
    \A c \in CallIds :
        LET call == calls[c] IN
        ( /\ NobodyAssigns(call)
          /\ call.original = 1
          /\ Failure(N(call) + 1) \notin call.raised ) =>
            /\ EveryoneProceeds(call)
            /\ \A i \in Positions(call) :
                  call.frames[i].pc = "after" =>
                      heap[call.frames[i].ctx].result = Returned
            /\ call.status = "resolved" => call.value = Returned

C8_Witness ==
    \E c \in CallIds :
        /\ N(calls[c]) = 3 /\ NobodyAssigns(calls[c])
        /\ calls[c].cur = 1 /\ calls[c].frames[1].pc = "after"
        /\ calls[c].frames[2].pc = "done" /\ calls[c].frames[3].pc = "done"
        /\ heap[calls[c].frames[1].ctx].result = Returned

\* C9: context identity. Every call has created exactly one context; the
\* context the updaters return is that instance, it is the one handed to
\* every middleware of the call, and the middleware that runs reads from it
\* the last value that a middleware or the original function's link wrote to
\* context.result in this call; the call resolves with that value.
C9_ContextIdentity ==
    /\ Len(heap) = Cardinality({c \in CallIds : Started(calls[c])})
    /\ \A c \in CallIds :
          LET call == calls[c] IN
          Started(call) =>
              /\ call.ctx = call.base
              /\ \A i \in Positions(call) :
                    call.frames[i].entered > 0 => call.frames[i].ctx = call.ctx
              /\ InSection(call) =>
                    heap[call.frames[call.cur].ctx].result = call.written
              /\ call.status = "resolved" => call.value = call.written

\* the third middleware reads what the first one wrote
C9_Witness ==
    \E c \in CallIds :
        /\ N(calls[c]) = 3 /\ InSection(calls[c]) /\ calls[c].cur = 3
        /\ calls[c].frames[1].sets = {"before"}
        /\ calls[c].frames[2].sets = {} /\ calls[c].frames[3].sets = {}
        /\ heap[calls[c].frames[3].ctx].result = Assigned(1)

\* what holds of every call taken alone
AsAlone(call) ==
    /\ call.status = "resolved" => call.value = call.written
    /\ call.status = "rejected" => call.value \in call.raised
    /\ (Plain(call) /\ call.status = "resolved") =>
          call.log = Onion(call) /\ call.value = Returned

Separate ==
    \A c \in CallIds :
        Started(calls[c]) =>
            /\ AsAlone(calls[c])
            /\ heap[calls[c].ctx].result = calls[c].written
            /\ \A d \in CallIds \ {c} :
                  Started(calls[d]) =>
                      /\ calls[c].ctx # calls[d].ctx
                      /\ \A i \in Positions(calls[c]) :
                            calls[c].frames[i].ctx # calls[d].ctx

\* a step of one call leaves the other calls and their contexts as they were
NoInterference ==
    \A c \in CallIds :
        calls'[c] # calls[c] =>
            \A d \in CallIds \ {c} :
                /\ calls'[d] = calls[d]
                /\ Started(calls[d]) => heap'[calls[d].ctx] = heap[calls[d].ctx]

\* C10: independent invocations. Calls in flight together have different
\* context instances, no middleware of one call holds the context of
\* another, every step of one call leaves the other calls and their contexts
\* unchanged, and each call settles as it does alone: with the last value
\* written to its own context.result, or with a failure raised in it.
C10_Independent == []Separate /\ [][NoInterference]_vars

\* two calls in flight, the first suspended inside its middleware after
\* the second resolved, each with its own result
C10_Witness ==
    /\ 2 \in CallIds
    /\ N(calls[1]) = 1 /\ N(calls[2]) = 1
    /\ calls[1].status = "running" /\ calls[1].parked
    /\ calls[1].written = Assigned(1)
    /\ calls[2].status = "resolved" /\ calls[2].value = Returned
    /\ heap[calls[1].ctx].result = Assigned(1)
    /\ heap[calls[2].ctx].result = Returned

\* the names declared with withParams
Params == lim.params
Named == Len(Params) > 0
\* the middleware of the call that assigned context[name]
Writers(call, name) == {i \in Positions(call) : name \in call.frames[i].wrote}
\* what the named field at position p holds: the call argument, or what
\* the innermost middleware that assigned it gave it
ExpectedAt(call, p) ==
    IF Writers(call, Params[p]) # {}
    THEN Changed(CHOOSE i \in Writers(call, Params[p]) :
                    \A j \in Writers(call, Params[p]) : j <= i)
    ELSE IF p <= Len(call.args) THEN call.args[p] ELSE Undef

\* the named fields are the call arguments, in order
RoundTrip ==
    \A c \in CallIds :
        LET call == calls[c] IN
        (Named /\ Started(call) /\ \A i \in Positions(call) : call.frames[i].wrote = {}) =>
            /\ \A p \in 1..Len(Params) :
                  p <= Len(call.args) => heap[call.ctx].named[Params[p]] = call.args[p]
            /\ Len(call.args) = Len(Params) => ArgumentsOf(heap[call.ctx]) = call.args

\* a step in which a middleware writes to context.arguments changes neither
\* a named field nor what context.arguments reads as
ReadOnly ==
    \A c \in CallIds :
        ( /\ Named /\ Started(calls[c])
          /\ \E i \in Positions(calls[c]) :
                calls'[c].frames[i].tried # calls[c].frames[i].tried ) =>
            /\ heap'[calls[c].ctx].named = heap[calls[c].ctx].named
            /\ ArgumentsOf(heap'[calls[c].ctx]) = ArgumentsOf(heap[calls[c].ctx])

\* C11: named-parameter round trip. With names n1..nk declared (k > 0, the
\* names distinct) and before a middleware assigns a named field,
\* context[ni] is the i-th call argument and, for a call with k arguments,
\* context.arguments reads as the call arguments in order; and
\* context.arguments is read-only: a middleware that assigns to it or writes
\* an element of the array it returns (the write is ignored, or throws in
\* strict mode) changes no context[ni] and not what context.arguments reads
\* as afterwards.
C11_NamedRoundTrip == []RoundTrip /\ [][ReadOnly]_vars

\* the second middleware reads the call arguments after the first one
\* assigned to context.arguments
C11_Witness ==
    \E c \in CallIds :
        /\ Params = <<"a", "b">> /\ calls[c].args = <<Arg(1), Arg(2)>>
        /\ N(calls[c]) = 2 /\ InSection(calls[c]) /\ calls[c].cur = 2
        /\ calls[c].frames[1].tried = {"assign"}
        /\ calls[c].frames[1].wrote = {} /\ calls[c].frames[2].wrote = {}
        /\ heap[calls[c].ctx].named = [a |-> Arg(1), b |-> Arg(2)]
        /\ ArgumentsOf(heap[calls[c].frames[2].ctx]) = <<Arg(1), Arg(2)>>

\* C12: context.arguments is derived lazily. In named-parameter mode, once
\* a middleware has assigned a named field before its next(), what every
\* middleware of the call reads as context.arguments from then on, and the
\* arguments the original function is called with, carry at that position
\* the value assigned last.
C12_LazyArguments ==
    \A c \in CallIds :
        LET call == calls[c] IN
        (Named /\ Started(call)) =>
            /\ \A i \in Positions(call) :
                  call.frames[i].entered > 0 =>
                      /\ Len(ArgumentsOf(heap[call.frames[i].ctx])) = Len(Params)
                      /\ \A p \in 1..Len(Params) :
                            ArgumentsOf(heap[call.frames[i].ctx])[p] = ExpectedAt(call, p)
            /\ call.original > 0 =>
                  /\ Len(call.calledWith) = Len(Params)
                  /\ \A p \in 1..Len(Params) : call.calledWith[p] = ExpectedAt(call, p)

\* the original function is called with the punctuation mark the first
\* middleware assigned
C12_Witness ==
    \E c \in CallIds :
        /\ Params = <<"a", "b">> /\ calls[c].args = <<Arg(1), Arg(2)>>
        /\ N(calls[c]) = 2
        /\ calls[c].frames[1].wrote = {"b"} /\ calls[c].frames[2].wrote = {}
        /\ calls[c].original = 1
        /\ calls[c].calledWith = <<Arg(1), Changed(1)>>
        /\ calls[c].status = "resolved"

Range(seq) == {seq[k] : k \in 1..Len(seq)}
Ascending(seq) == \A i, j \in 1..Len(seq) : i < j => seq[i] < seq[j]

\* the target a middleware was registered on (a prototype's middleware are
\* also found in what a subtype's prototype stores)
Owner(id) ==
    IF id \in Range(HOOKS["base"].mw) THEN "base"
    ELSE CHOOSE t \in Targets : id \in Range(HOOKS[t].mw)

\* where the receiver's middleware are registered
Level(self) == IF self = "inst" THEN "sub" ELSE self

\* the positions of the chain registered on the function / on the receiver
FnLevel(call) == {i \in Positions(call) : Owner(call.chain[i]) = "fn"}
ReceiverLevel(call) == Positions(call) \ FnLevel(call)

\* C13: collection order. The chain of a call is the middleware registered
\* on the receiver (the object, or the prototype of the instance) followed
\* by the middleware registered on the called function, each part in
\* registration order and with nothing registered before the call left out;
\* a call without receiver has the function's middleware only; and when the
\* chain runs, every receiver-level middleware is entered before every
\* function-level one and is suspended in its next() while that one runs.
C13_CollectionOrder ==
    \A c \in CallIds :
        LET call == calls[c] IN
        Started(call) =>
            /\ \A i \in ReceiverLevel(call), j \in FnLevel(call) : i < j
            /\ \A i, j \in Positions(call) :
                  (i < j /\ (i \in FnLevel(call) <=> j \in FnLevel(call))) =>
                      call.chain[i] < call.chain[j]
            /\ \A id \in 1..call.collected :
                  Owner(id) \in {"fn", Level(call.self)} => id \in Range(call.chain)
            /\ call.self = NoSelf => ReceiverLevel(call) = {}
            /\ \A e1, e2 \in 1..Len(call.log) :
                  ( /\ call.log[e1].ev = "before" /\ call.log[e2].ev = "before"
                    /\ call.log[e1].pos \in ReceiverLevel(call)
                    /\ call.log[e2].pos \in FnLevel(call) ) => e1 < e2
            /\ (InSection(call) /\ call.cur \in FnLevel(call)) =>
                  \A i \in ReceiverLevel(call) : call.frames[i].pc = "waiting"

\* a method call on the object: the middleware registered on the object
\* after the one on the function is the outer one, and has run around it
C13_Witness ==
    \E c \in CallIds :
        /\ calls[c].self = "obj"
        /\ HOOKS["fn"].mw = <<1>> /\ HOOKS["obj"].mw = <<2>>
        /\ calls[c].chain = <<2, 1>>
        /\ calls[c].status = "resolved"
        /\ calls[c].log = Onion(calls[c])

\* the entries of a hook map that name something that is not a function
Offending(hooks) == {i \in 1..Len(hooks) : ~IsFunction(obj[hooks[i].key])}
First(S) == CHOOSE i \in S : \A j \in S : i <= j

\* C14: registration misuse fails at registration time. An objectHooks call
\* with a hook map that names a property which is not a function has thrown
\* "Can not apply hooks. '<method>' is not a function" for the first such
\* key, and a map that names only functions has not thrown; nothing that is
\* not a function ever gets a wrapper, and no call of a wrapped method
\* fails with that error.
C14_FailsAtRegistration ==
    /\ applied.hooks # <<>> =>
          applied.threw = IF Offending(applied.hooks) # {}
                          THEN ConfigurationError(
                                   applied.hooks[First(Offending(applied.hooks))].key)
                          ELSE NoError
    /\ \A m \in DOMAIN obj : IsWrapper(obj[m]) => IsFunction(obj[m].original)
    /\ \A c \in CallIds :
          calls[c].value.k # ConfigurationError("name").k

\* the hook map { name: [...] } has thrown before any method was called
C14_Witness ==
    /\ Len(applied.hooks) = 1 /\ applied.hooks[1].key = "name"
    /\ applied.threw = ConfigurationError("name")
    /\ \A c \in CallIds : ~Started(calls[c])

\* C15: every call of a method that objectHooks wrapped through a hook map
\* builds its context, and every middleware of its chain sees
\* context.method equal to the map key.
C15_AsStated ==
    \A c \in CallIds :
        (Started(calls[c]) /\ calls[c].fn \in Wrappers) =>
            /\ calls[c].status # "threw"
            /\ \A i \in Positions(calls[c]) :
                  calls[c].frames[i].entered > 0 =>
                      heap[calls[c].frames[i].ctx].method = calls[c].fn

Last(seq) == seq[Len(seq)]
\* the call was given a HookContext instance as its last argument
Trailing(call) == Len(call.raw) > 0 /\ Last(call.raw).k = "HookContext"

\* C16: trailing context. When a HookContext instance is passed as the
\* additional last argument of a call, the context of the call is that
\* instance, context.arguments and the arguments of the original function
\* are the arguments before it, every middleware holds the instance and
\* reads the field it was seeded with, and the call resolves to the
\* instance, whose result is the value written last; a call without a
\* context resolves to context.result.
C16_TrailingContext ==
    \A c \in CallIds :
        LET call == calls[c] IN
        Started(call) =>
            /\ Trailing(call) =>
                  /\ call.ctx = Last(call.raw).n
                  /\ call.args = SubSeq(call.raw, 1, Len(call.raw) - 1)
                  /\ ArgumentsOf(heap[call.ctx]) = call.args
                  /\ call.original > 0 => call.calledWith = call.args
                  /\ \A i \in Positions(call) :
                        call.frames[i].entered > 0 =>
                            /\ call.frames[i].ctx = Last(call.raw).n
                            /\ heap[call.frames[i].ctx].named["message"] = Seeded
                  /\ call.status = "resolved" =>
                        /\ call.value = Last(call.raw)
                        /\ call.written # Undef =>
                              heap[call.value.n].result = call.written
            /\ ~Trailing(call) =>
                  /\ call.args = call.raw
                  /\ call.status = "resolved" =>
                        /\ call.value.k # "HookContext"
                        /\ call.value = heap[call.ctx].result

\* the call sayHello('Dave', customContext) has resolved to customContext,
\* which carries the result of the original function
C16_Witness ==
    \E c \in CallIds :
        /\ calls[c].raw = <<Arg(1), ContextValue(1)>>
        /\ N(calls[c]) = 2 /\ calls[c].log = Onion(calls[c])
        /\ calls[c].calledWith = <<Arg(1)>>
        /\ calls[c].status = "resolved"
        /\ calls[c].value = ContextValue(1)
        /\ heap[1].result = Returned
        /\ heap[1].named["message"] = Seeded

\* the keys of defaults hold the default where the context held undefined
\* and their value where it held any other
FillsUndefinedOnly(defaults, before, after) ==
    \A key \in DOMAIN defaults :
        GetField(after, key) =
            IF GetField(before, key) = Undef THEN defaults[key]
            ELSE GetField(before, key)

\* the properties of the context that are no keys of defaults are the same
OtherStored(defaults, before, after) ==
    /\ \A key \in (DefaultKeys \cup DOMAIN before.named) \ DOMAIN defaults :
          GetField(after, key) = GetField(before, key)
    /\ DOMAIN after.named \subseteq DOMAIN before.named \cup DOMAIN defaults
    /\ after.self = before.self
    /\ after.method = before.method
    /\ after.arguments = before.arguments
    /\ after.getter = before.getter

\* C17 as stated: withDefaults(defaults) fills the keys that are undefined,
\* keeps the keys that are defined (null, 0, false and '' included), changes
\* no other field of the context, context.arguments included, and changes
\* nothing when applied a second time.
C17_AsStated ==
    \A defaults \in Defaults :
        Len(heap) > 0 =>
            LET before == heap[1]
                after  == withDefaults(defaults, before)
            IN /\ FillsUndefinedOnly(defaults, before, after)
               /\ OtherStored(defaults, before, after)
               /\ ArgumentsOf(after) = ArgumentsOf(before)
               /\ withDefaults(defaults, after) = after

\* C17: withDefaults(defaults) fills the keys that are undefined, keeps the
\* keys that are defined (null, 0, false and '' included), changes no other
\* property of the context, and changes nothing when applied a second time;
\* context.arguments is the same unless it is read from named parameters,
\* and then it differs exactly at the parameters that were filled.
C17_FillsUndefinedOnly ==
    \A defaults \in Defaults :
        Len(heap) > 0 =>
            LET before == heap[1]
                after  == withDefaults(defaults, before)
            IN /\ FillsUndefinedOnly(defaults, before, after)
               /\ OtherStored(defaults, before, after)
               /\ Len(ArgumentsOf(after)) = Len(ArgumentsOf(before))
               /\ \A i \in 1..Len(ArgumentsOf(before)) :
                     ArgumentsOf(after)[i] =
                         IF /\ Len(before.getter) > 0
                            /\ before.getter[i] \in DOMAIN defaults
                            /\ ArgumentsOf(before)[i] = Undef
                         THEN defaults[before.getter[i]]
                         ELSE ArgumentsOf(before)[i]
               /\ withDefaults(defaults, after) = after

\* withDefaults({ a, b, result }) has filled a, which was undefined, and
\* has kept b and result, which were false and 0
C17_Witness ==
    /\ Len(heap) = 1
    /\ heap[1].named = [a |-> Default, b |-> False]
    /\ heap[1].result = Zero
    /\ heap[1].getter = <<>>

\* what a target finds along its prototype chain
Inherited(H, target) ==
    IF target \in DOMAIN Prototype THEN HooksOf(H, Prototype[target]) ELSE <<>>

\* the middleware functions made by the step, in the order of the array
NewMiddleware == [i \in 1..(made' - made) |-> made + i]

NoDuplicates(seq) == \A i, j \in 1..Len(seq) : seq[i] = seq[j] => i = j

\* every middleware registered is stored, and a stored sequence is in the
\* order of the registrations and repeats nothing
Accumulated ==
    /\ \A id \in 1..made : \E t \in Targets : id \in Range(HOOKS[t].mw)
    /\ \A t \in Targets :
          LET seq == getMiddleware(HOOKS, t) IN
          /\ NoDuplicates(seq)
          /\ Ascending(seq)
          /\ Range(seq) \subseteq 1..made

\* C18 as stated: getMiddleware(target) is the concatenation of the arrays
\* registered on the target in call order, and a target that was never
\* registered yields the empty sequence.
C18_AsStated ==
    /\ [](Accumulated /\ \A t \in Targets :
              ~HOOKS[t].own => getMiddleware(HOOKS, t) = <<>>)
    /\ [][HOOKS' # HOOKS =>
            \E t \in Targets :
                /\ getMiddleware(HOOKS', t) = HOOKS[t].mw \o NewMiddleware
                /\ \A u \in Targets \ {t} : HOOKS'[u] = HOOKS[u]]_vars

\* C18: registration accumulates in order. Each registerMiddleware call
\* appends its array to what getMiddleware(target) yielded before, and
\* changes nothing stored on another target, so that getMiddleware(target)
\* is what the target inherited from its prototype when it was registered
\* first (nothing for a target that inherits nothing) followed by the
\* arrays registered on it in call order, with nothing dropped, duplicated
\* or reordered; a target that was never registered yields what it
\* inherits, the empty sequence when it inherits nothing.
C18_Accumulates ==
    /\ [](Accumulated /\ \A t \in Targets :
              ~HOOKS[t].own => /\ HOOKS[t].mw = <<>>
                               /\ getMiddleware(HOOKS, t) = Inherited(HOOKS, t))
    /\ [][HOOKS' # HOOKS =>
            \E t \in Targets :
                /\ HOOKS'[t].own
                /\ getMiddleware(HOOKS', t) =
                       getMiddleware(HOOKS, t) \o NewMiddleware
                /\ Len(NewMiddleware) > 0
                /\ \A u \in Targets \ {t} : HOOKS'[u] = HOOKS[u]]_vars

\* the subtype's prototype, registered after the base prototype, stores the
\* base's middleware followed by its own; the object was never registered
C18_Witness ==
    /\ HOOKS["base"].mw = <<1>>
    /\ HOOKS["sub"].own /\ getMiddleware(HOOKS, "sub") = <<1, 2>>
    /\ ~HOOKS["obj"].own /\ getMiddleware(HOOKS, "obj") = <<>>
    /\ ~HOOKS["fn"].own

\* the positions of the chain that hold the middleware id
At(call, id) == {i \in Positions(call) : call.chain[i] = id}

\* C19 as stated: registering hooks works with inheritance. Whatever the
\* order of the registerMiddleware calls on the base prototype and on the
\* prototype of the subtype, the chain of a call on an instance of the
\* subtype holds every middleware registered on the base prototype before
\* the call, each once, and after them the middleware registered on the
\* prototype of the subtype.
C19_AsStated ==
    \A c \in CallIds :
        LET call == calls[c] IN
        (Started(call) /\ call.self = "inst") =>
            /\ \A id \in 1..call.collected :
                  Owner(id) \in {"base", "sub"} => Cardinality(At(call, id)) = 1
            /\ \A i, j \in Positions(call) :
                  ( /\ Owner(call.chain[i]) = "base"
                    /\ Owner(call.chain[j]) = "sub" ) => i < j

\* the chain of a call holds what was registered before it was collected
\* for the function and for the receiver, and nothing registered later
CollectedThen(call) ==
    /\ Range(call.chain) \subseteq 1..call.collected
    /\ \A id \in 1..call.collected :
          Owner(id) \in {"fn", Level(call.self)} => id \in Range(call.chain)

\* a step leaves the chain of every call that has started as it is
ChainsKept ==
    \A c \in CallIds :
        Started(calls[c]) =>
            /\ calls'[c].chain = calls[c].chain
            /\ calls'[c].collected = calls[c].collected

\* a step that registers touches no call and only appends, to what one
\* target stores
AppendsOnly ==
    HOOKS' # HOOKS =>
        /\ calls' = calls
        /\ \E t \in Targets :
              /\ IsPrefix(getMiddleware(HOOKS, t), getMiddleware(HOOKS', t))
              /\ \A u \in Targets \ {t} : HOOKS'[u].mw = HOOKS[u].mw

C21_AsStated ==
    [][(applied' # applied /\ applied'.threw # NoError) => obj' = obj]_vars

\* the call arguments at positions beyond the declared names
Excess(call) == {call.args[q] : q \in (Len(Params) + 1)..Len(call.args)}

\* seq has one element per declared name, none of them a call argument
\* beyond the names, and undefined at the position of a name that has no
\* call argument and was never assigned
OnePerName(call, seq) ==
    /\ Len(seq) = Len(Params)
    /\ Range(seq) \cap Excess(call) = {}
    /\ \A p \in 1..Len(Params) :
          (p > Len(call.args) /\ Writers(call, Params[p]) = {}) => seq[p] = Undef

\* C22: in named-parameter mode with k declared names, context.arguments
\* has exactly k elements whatever the number of arguments of the call: the
\* call arguments beyond position k are not in context.arguments and are
\* not passed to the original function, and a name whose position has no
\* call argument reads as undefined.
C22_ExactlyNamed ==
    \A c \in CallIds :
        LET call == calls[c] IN
        (Named /\ Started(call)) =>
            /\ OnePerName(call, ArgumentsOf(heap[call.ctx]))
            /\ \A i \in Positions(call) :
                  call.frames[i].entered > 0 =>
                      OnePerName(call, ArgumentsOf(heap[call.frames[i].ctx]))
            /\ call.original > 0 => OnePerName(call, call.calledWith)
            /\ \A p \in 1..Len(Params) :
                  (p > Len(call.args) /\ Writers(call, Params[p]) = {}) =>
                      heap[call.ctx].named[Params[p]] = Undef

\* one name declared and two arguments given: the middleware read one
\* argument and the original function was called with it alone
C22_Witness ==
    \E c \in CallIds :
        /\ Params = <<"a">> /\ calls[c].args = <<Arg(1), Arg(2)>>
        /\ N(calls[c]) = 1 /\ calls[c].frames[1].wrote = {}
        /\ ArgumentsOf(heap[calls[c].frames[1].ctx]) = <<Arg(1)>>
        /\ calls[c].original = 1 /\ calls[c].calledWith = <<Arg(1)>>
        /\ calls[c].status = "resolved"

\* two names declared and one argument given: the second name reads as
\* undefined and the original function was called with it
C22_Missing ==
    \E c \in CallIds :
        /\ Params = <<"a", "b">> /\ calls[c].args = <<Arg(1)>>
        /\ calls[c].original = 1 /\ calls[c].calledWith = <<Arg(1), Undef>>

====
